---- MODULE Spec2Model ----
(***************************************************************************)
(* Model of the live-partner chat loop: the log store and its compaction,  *)
(* the context builder, the repetition guard and the per-cycle turn engine *)
(* of src/app.py, with the helpers of src/actions.py and src/dialog.py.    *)
(* Spec is the engine, SpecLive the engine with its fairness, SpecText the  *)
(* pure text functions on drawn inputs, SpecStore the log file on disk.     *)
(*                                                                         *)
(* Text is a sequence of one-character strings, so that the string         *)
(* functions of the source (strip, replace, lower, slicing, "in") are      *)
(* computed character by character as Python computes them.               *)
(* Literals of the source that are only ever compared or copied as a whole *)
(* are one token: "wu" is the one-character sentinel "无", and the         *)
(* fallback action and the three log notes are one token each.            *)
(***************************************************************************)
EXTENDS Integers, Sequences, FiniteSets, TLC

VARIABLES
    config,          \* AppConfig fields the engine reads
    now,             \* the wall clock datetime.now() reads
    log,             \* rows of the log file, header excluded
    pc,              \* position of the process in main / run_cycle
    stage,           \* "first" (lines 245-266) or "next" (lines 301-321) turn
    session_entries, \* run_cycle's session_entries
    session_text,    \* run_cycle's session_text
    recent_replies,  \* run_cycle's recent_replies
    avoid_text,      \* run_cycle's avoid_text
    behavior,        \* run_cycle's behavior
    user_input,      \* run_cycle's user_input
    reply,           \* run_cycle's reply
    attempt,         \* iterations of the retry loop entered in this turn
    cands,           \* history: candidates generate_reply returned this turn
    appended,        \* history: directions this cycle passed to append_log
    dialogs,         \* history: display_dialog calls of this cycle
    generations,     \* history: generate_reply calls of this cycle
    turn,            \* history: turns started in this cycle
    ending,          \* history: how the current cycle ended, "none" while it runs
    prev_log,        \* history: log as read by this cycle's compaction check
    summarized,      \* history: summarizer calls of this cycle's compaction check
    checked,         \* history: compaction checks run by the current cycle
    t_fn,            \* text bench: the function applied last
    t_a,             \* text bench: first text argument
    t_b,             \* text bench: second text argument
    t_entries,       \* text bench: session entries argument
    t_rows,          \* text bench: log rows argument
    t_turns,         \* text bench: max_turns argument
    t_chars,         \* text bench: max_chars argument
    t_comb,          \* text bench: the combined text before truncation
    t_out,           \* text bench: text result
    t_flags,         \* text bench: boolean results
    file,            \* log store: lines of the log file on disk, header included
    buffer,          \* log store: lines written to the open file, not yet on disk
    op               \* log store: the operation in progress, with the rows
                     \* read_logs gave before it and gives after it completes

engine_vars == <<config, now, log, pc, stage, session_entries, session_text,
                 recent_replies, avoid_text, behavior, user_input, reply,
                 attempt, cands, appended, dialogs, generations, turn, ending,
                 prev_log, summarized, checked>>

bench_vars == <<t_fn, t_a, t_b, t_entries, t_rows, t_turns, t_chars, t_comb,
                t_out, t_flags>>

store_vars == <<file, buffer, op>>

vars == <<engine_vars, bench_vars, store_vars>>

-----------------------------------------------------------------------------
(* Bounds of the model.                                                    *)

MaxLen == 3
MaxLenB == 2
MaxEntries == 3
MaxChars == 9
MaxLog == 6

-----------------------------------------------------------------------------
(* Python string and list primitives.                                      *)

Whitespace == {" ", "\t", "\n"}

Max(a, b) == IF a >= b THEN a ELSE b

Min(a, b) == IF a <= b THEN a ELSE b

\* s[start:] of Python, for any integer start
PySliceFrom(s, start) ==
    LET n == Len(s)
        i == IF start < 0 THEN Max(n + start, 0) ELSE Min(start, n)
    IN  SubSeq(s, i + 1, n)

\* s[:stop] of Python, for any integer stop
PySliceTo(s, stop) ==
    LET n == Len(s)
        j == IF stop < 0 THEN Max(n + stop, 0) ELSE Min(stop, n)
    IN  SubSeq(s, 1, j)

\* s[-k:] of Python: the unary minus makes k = 0 select the whole of s
PyTail(s, k) == PySliceFrom(s, 0 - k)

RECURSIVE lstrip(_)
lstrip(s) ==
    IF s = <<>> THEN s
    ELSE IF Head(s) \in Whitespace THEN lstrip(Tail(s)) ELSE s

RECURSIVE rstrip(_)
rstrip(s) ==
    IF s = <<>> THEN s
    ELSE IF s[Len(s)] \in Whitespace THEN rstrip(SubSeq(s, 1, Len(s) - 1)) ELSE s

strip(s) == rstrip(lstrip(s))

Contains(s, ch) == \E i \in 1..Len(s) : s[i] = ch

\* x in y, for strings
IsSubstring(x, y) ==
    \E i \in 0..(Len(y) - Len(x)) : SubSeq(y, i + 1, i + Len(x)) = x

RECURSIVE RemoveChars(_, _)
RemoveChars(s, drop) ==
    IF s = <<>> THEN <<>>
    ELSE IF Head(s) \in drop THEN RemoveChars(Tail(s), drop)
    ELSE <<Head(s)>> \o RemoveChars(Tail(s), drop)

LowerChar(ch) == IF ch = "A" THEN "a" ELSE IF ch = "B" THEN "b" ELSE ch

lower(s) == [i \in 1..Len(s) |-> LowerChar(s[i])]

RECURSIVE Join(_, _)
Join(lines, sep) ==
    IF lines = <<>> THEN <<>>
    ELSE IF Len(lines) = 1 THEN lines[1]
    ELSE lines[1] \o sep \o Join(Tail(lines), sep)

\* s.split("\n", 1)[-1]: what follows the first newline, or s when it has none
AfterFirstNewline(s) ==
    IF Contains(s, "\n")
    THEN LET i == CHOOSE k \in 1..Len(s) :
                      s[k] = "\n" /\ \A j \in 1..(k - 1) : s[j] # "\n"
         IN  SubSeq(s, i + 1, Len(s))
    ELSE s

\* [row for row in rows if row[1] in dirs]
RECURSIVE RowsOf(_, _)
RowsOf(rows, dirs) ==
    IF rows = <<>> THEN <<>>
    ELSE IF Head(rows).direction \in dirs
    THEN <<Head(rows)>> \o RowsOf(Tail(rows), dirs)
    ELSE RowsOf(Tail(rows), dirs)

-----------------------------------------------------------------------------
(* src/actions.py                                                          *)

\* mutant: the closing parenthesis lacks its continue
RECURSIVE StripActionScanNoContinue(_, _)
StripActionScanNoContinue(text, depth) ==
    IF text = <<>> THEN <<>>
    ELSE LET ch == Head(text)
         IN  IF ch = "(" THEN StripActionScanNoContinue(Tail(text), depth + 1)
             ELSE IF ch = ")" /\ depth > 1
             THEN StripActionScanNoContinue(Tail(text), depth - 1)
             ELSE IF ch = ")" \/ depth = 0
             THEN <<ch>> \o StripActionScanNoContinue(Tail(text), 0)
             ELSE StripActionScanNoContinue(Tail(text), depth)

RECURSIVE StripActionScan(_, _)
StripActionScan(text, depth) ==
    IF text = <<>> THEN <<>>
    ELSE LET ch == Head(text)
         IN  IF ch = "(" THEN StripActionScan(Tail(text), depth + 1)
             ELSE IF ch = ")" THEN StripActionScan(Tail(text), Max(depth - 1, 0))
             ELSE IF depth = 0 THEN <<ch>> \o StripActionScan(Tail(text), depth)
             ELSE StripActionScan(Tail(text), depth)

strip_action(text) ==
    IF ~Contains(text, "(") \/ ~Contains(text, ")")
    THEN strip(text)
    ELSE strip(StripActionScan(text, 0))

\* mutant: the action is appended without its parentheses
attach_action_bare(r, action) == r \o action

attach_action(r, action) ==
    IF action = <<>> THEN r ELSE r \o <<"(">> \o action \o <<")">>

\* [item for item in actions if item.strip()]
RECURSIVE NonBlank(_)
NonBlank(actions) ==
    IF actions = <<>> THEN <<>>
    ELSE IF strip(Head(actions)) # <<>>
    THEN <<Head(actions)>> \o NonBlank(Tail(actions))
    ELSE NonBlank(Tail(actions))

\* the values random.choice may return in pick_action
pick_action(actions, fallback) ==
    IF actions # <<>>
    THEN LET candidates == NonBlank(actions)
             pool == IF candidates # <<>> THEN candidates ELSE actions
         IN  {pool[i] : i \in 1..Len(pool)}
    ELSE {fallback}

-----------------------------------------------------------------------------
(* src/app.py: context builder and repetition guard                        *)

\* the sentinel "无"
None == <<"wu">>

\* the direction or role as it is written in a "role: text" line
RoleText(role) ==
    CASE role = "cat" -> <<"c", "a", "t">>
      [] role = "user" -> <<"u", "s", "e", "r">>
      [] role = "system" -> <<"s", "y", "s", "t", "e", "m">>
      [] OTHER -> <<"s", "u", "m", "m", "a", "r", "y">>

\* f"{role}: {text}"
Line(role, text) == RoleText(role) \o <<":", " ">> \o text

\* x or "无"
OrNone(x) == IF x = <<>> THEN None ELSE x

\* if len(combined) > max_chars: keep the tail, drop what precedes the first
\* newline of the tail
TruncateContext(combined, max_chars) ==
    IF Len(combined) > max_chars
    THEN strip(AfterFirstNewline(PyTail(combined, max_chars)))
    ELSE combined

\* the combined text of build_session_context before truncation
SessionCombined(entries, max_turns) ==
    LET tail == PyTail(entries, max_turns * 2)
        lines == [i \in 1..Len(tail) |-> Line(tail[i].role, tail[i].text)]
    IN  strip(Join(lines, <<"\n">>))

build_session_context(entries, max_turns, max_chars) ==
    IF entries = <<>> THEN None
    ELSE OrNone(TruncateContext(SessionCombined(entries, max_turns), max_chars))

\* the combined text of build_history_context before truncation
HistoryCombined(rows, max_turns) ==
    LET summary_rows == RowsOf(rows, {"summary"})
        summary == IF summary_rows # <<>>
                   THEN summary_rows[Len(summary_rows)].content ELSE <<>>
        tail == PyTail(RowsOf(rows, {"user", "cat"}), max_turns * 2)
        lines == [i \in 1..Len(tail) |-> Line(tail[i].direction, tail[i].content)]
        history == strip(Join(lines, <<"\n">>))
    IN  IF summary # <<>>
        THEN strip(<<"zhai", "yao", "colon">> \o summary \o <<"\n">> \o history)
        ELSE history

build_history_context(rows, max_turns, max_chars) ==
    IF rows = <<>> THEN None
    ELSE OrNone(TruncateContext(HistoryCombined(rows, max_turns), max_chars))

get_recent_cat_replies(rows, limit) ==
    LET cat == RowsOf(rows, {"cat"})
        cat_rows == [i \in 1..Len(cat) |-> strip_action(cat[i].content)]
    IN  PyTail(cat_rows, limit)

\* the characters normalize_for_compare deletes (the half-width ones; the
\* texts of the model hold no full-width punctuation)
CompareChars == {",", ".", "!", "?", "~", " "}

normalize_for_compare(text) ==
    lower(RemoveChars(strip_action(text), CompareChars))

\* mutant: only "cand in ref" is tested, not "ref in cand"
RECURSIVE RepeatsAnyOneWay(_, _)
RepeatsAnyOneWay(cand, recent) ==
    IF recent = <<>> THEN FALSE
    ELSE LET ref == normalize_for_compare(Head(recent))
         IN  IF ref = <<>> THEN RepeatsAnyOneWay(cand, Tail(recent))
             ELSE IF cand = ref THEN TRUE
             ELSE IF IsSubstring(cand, ref) THEN TRUE
             ELSE RepeatsAnyOneWay(cand, Tail(recent))

\* the for loop of is_repetitive over recent
RECURSIVE RepeatsAny(_, _)
RepeatsAny(cand, recent) ==
    IF recent = <<>> THEN FALSE
    ELSE LET ref == normalize_for_compare(Head(recent))
         IN  IF ref = <<>> THEN RepeatsAny(cand, Tail(recent))
             ELSE IF cand = ref THEN TRUE
             ELSE IF IsSubstring(cand, ref) \/ IsSubstring(ref, cand) THEN TRUE
             ELSE RepeatsAny(cand, Tail(recent))

is_repetitive(candidate, recent) ==
    IF candidate = <<>> \/ recent = <<>> THEN FALSE
    ELSE LET cand == normalize_for_compare(candidate)
         IN  IF cand = <<>> THEN FALSE ELSE RepeatsAny(cand, recent)

-----------------------------------------------------------------------------
(* src/app.py: log store                                                   *)

Row(t, direction, content) ==
    [timestamp |-> t, direction |-> direction, content |-> content]

\* mutant: the row is written before the rows of the file
append_log_first(rows, t, direction, content) ==
    <<Row(t, direction, content)>> \o rows

\* the rows of the file after append_log wrote one row at time t
append_log(rows, t, direction, content) ==
    Append(rows, Row(t, direction, content))

\* mutant: the threshold test is >= instead of >
NeedsCompactionAtThreshold(rows, max_records) == ~(Len(rows) < max_records)

\* if len(rows) <= max_records: return
NeedsCompaction(rows, max_records) == ~(Len(rows) <= max_records)

\* mutant: the summary row is written after the remainder
CompactedRowsSummaryLast(rows, compress_batch, summary_row) ==
    PySliceFrom(rows, compress_batch) \o <<summary_row>>

\* write_logs(log_path, [summary_row] + rows[compress_batch:])
CompactedRows(rows, compress_batch, summary_row) ==
    <<summary_row>> \o PySliceFrom(rows, compress_batch)

-----------------------------------------------------------------------------
(* Inputs of the engine: configuration, collaborators, user.               *)

\* the fallback action "扶正牛仔帽" of run_cycle
Fallback == <<"hat">>

\* the log notes "用户未点击通知", "用户关闭弹窗", "用户未输入内容"
NoteNotClicked == <<"not-clicked">>

NoteClosed == <<"closed">>

NoteEmpty == <<"no-input">>

\* texts generate_reply may return, as clean_reply leaves them
Replies == {<<"g", "a">>, <<"b", "g">>}

\* texts the summarizer may return, stripped
Summaries == {<<"s">>}

\* texts a dialog may return with the send button
Inputs == {<<" ">>, <<" ", "u">>}

\* readings of the wall clock
Times == {0, 1}

\* what datetime.now() may return when it returned t last
Later(t) == {u \in Times : u >= t}

\* what display_notification_tk may return: None, False or True
Notifications == {"unavailable", "ignored", "clicked"}

ActionLists == {<<>>, << <<>> >>, << <<"w">> >>}

\* configurations that vary the log thresholds
CompactionConfigs ==
    [max_records : {1, 2, 3},
     compress_batch : {0, 1, 3},
     max_retries : {1},
     history_max_turns : {1},
     history_max_chars : {MaxChars},
     actions : {<<>>}]

\* configurations that vary the retry bound, the history window and the actions
TurnConfigs ==
    [max_records : {2},
     compress_batch : {1},
     max_retries : {1, 3},
     history_max_turns : {0, 1},
     history_max_chars : {MaxChars},
     actions : ActionLists]

Configs == CompactionConfigs \cup TurnConfigs

-----------------------------------------------------------------------------
(* src/dialog.py                                                           *)

\* mutant: the dialog is shown before the click is looked at
notify_then_dialog_first(clicked, sent, text) ==
    IF clicked = "unavailable"
    THEN [sent |-> FALSE, text |-> <<>>, clicked |-> FALSE, dialog_calls |-> 0]
    ELSE IF clicked = "ignored"
    THEN [sent |-> FALSE, text |-> <<>>, clicked |-> FALSE, dialog_calls |-> 1]
    ELSE [sent |-> sent, text |-> text, clicked |-> TRUE, dialog_calls |-> 1]

\* notify_then_dialog: (sent, text, clicked) and the display_dialog calls made
notify_then_dialog(clicked, sent, text) ==
    IF clicked = "unavailable"
    THEN [sent |-> FALSE, text |-> <<>>, clicked |-> FALSE, dialog_calls |-> 0]
    ELSE IF clicked = "ignored"
    THEN [sent |-> FALSE, text |-> <<>>, clicked |-> FALSE, dialog_calls |-> 0]
    ELSE [sent |-> sent, text |-> text, clicked |-> TRUE, dialog_calls |-> 1]

-----------------------------------------------------------------------------
(* src/app.py: run_cycle and main                                          *)

\* mutant: the loop runs once more than max_retries
RetryLoopOneMore(next_attempt, max_retries) == next_attempt <= max_retries

\* for attempt in range(max_retries): is there an iteration numbered attempt
RetryLoopContinues(next_attempt, max_retries) == next_attempt < max_retries

\* "\n".join(recent_replies[-2:]) or "无"
AvoidText(recent) == OrNone(Join(PyTail(recent, 2), <<"\n">>))

ensure_user_reference(r, user_text) == r

BenchOff ==
    /\ t_fn = "off"
    /\ t_a = <<>>
    /\ t_b = <<>>
    /\ t_entries = <<>>
    /\ t_rows = <<>>
    /\ t_turns = 0
    /\ t_chars = 0
    /\ t_comb = <<>>
    /\ t_out = <<>>
    /\ t_flags = <<FALSE, FALSE>>

EngineIdle ==
    /\ now = 0
    /\ log = <<>>
    /\ pc = "idle"
    /\ stage = "first"
    /\ session_entries = <<>>
    /\ session_text = None
    /\ recent_replies = <<>>
    /\ avoid_text = None
    /\ behavior = <<>>
    /\ user_input = <<>>
    /\ reply = <<>>
    /\ attempt = 0
    /\ cands = <<>>
    /\ appended = <<>>
    /\ dialogs = 0
    /\ generations = 0
    /\ turn = 0
    /\ ending = "none"
    /\ prev_log = <<>>
    /\ summarized = 0
    /\ checked = 0

StoreOff ==
    /\ file = <<>>
    /\ buffer = <<>>
    /\ op = [kind |-> "none", pre |-> <<>>, post |-> <<>>]

Init ==
    /\ config \in Configs
    /\ EngineIdle
    /\ BenchOff
    /\ StoreOff

\* mutant: the first context is built from the log, by build_history_context
StartCycleFromHistory ==
    /\ pc = "idle"
    /\ Len(log) + 2 <= MaxLog
    /\ \E b \in pick_action(config.actions, Fallback) : behavior' = b
    /\ user_input' = <<>>
    /\ session_entries' = <<>>
    /\ session_text' = build_history_context(log, config.history_max_turns,
                                             config.history_max_chars)
    /\ recent_replies' = get_recent_cat_replies(log, config.history_max_turns * 2)
    /\ avoid_text' = AvoidText(recent_replies')
    /\ reply' = <<>>
    /\ attempt' = 0
    /\ cands' = <<>>
    /\ stage' = "first"
    /\ pc' = IF RetryLoopContinues(0, config.max_retries) THEN "generate" ELSE "persist"
    /\ appended' = <<>>
    /\ dialogs' = 0
    /\ generations' = 0
    /\ turn' = 1
    /\ ending' = "none"
    /\ checked' = 0
    /\ prev_log' = <<>>
    /\ summarized' = 0
    /\ UNCHANGED <<config, now, log, bench_vars, store_vars>>

\* main, lines 351-356, and run_cycle, lines 232-246
StartCycle ==
    /\ pc = "idle"
    /\ Len(log) + 2 <= MaxLog
    /\ \E b \in pick_action(config.actions, Fallback) : behavior' = b
    /\ user_input' = <<>>
    /\ session_entries' = <<>>
    /\ session_text' = build_session_context(<<>>, config.history_max_turns,
                                             config.history_max_chars)
    /\ recent_replies' = get_recent_cat_replies(log, config.history_max_turns * 2)
    /\ avoid_text' = AvoidText(recent_replies')
    /\ reply' = <<>>
    /\ attempt' = 0
    /\ cands' = <<>>
    /\ stage' = "first"
    /\ pc' = IF RetryLoopContinues(0, config.max_retries) THEN "generate" ELSE "persist"
    /\ appended' = <<>>
    /\ dialogs' = 0
    /\ generations' = 0
    /\ turn' = 1
    /\ ending' = "none"
    /\ checked' = 0
    /\ prev_log' = <<>>
    /\ summarized' = 0
    /\ UNCHANGED <<config, now, log, bench_vars, store_vars>>

\* one iteration of the retry loop, lines 247-261 and 302-316, in which
\* generate_reply returns c
GenerateReply ==
    /\ pc = "generate"
    /\ \E c \in Replies :
        /\ reply' = c
        /\ cands' = Append(cands, c)
        /\ pc' = IF ~is_repetitive(c, recent_replies) THEN "persist"
                 ELSE IF RetryLoopContinues(attempt + 1, config.max_retries)
                 THEN "generate" ELSE "persist"
    /\ attempt' = attempt + 1
    /\ generations' = generations + 1
    /\ UNCHANGED <<config, now, log, stage, session_entries, session_text,
                   recent_replies, avoid_text, behavior, user_input, appended,
                   dialogs, turn, ending, prev_log, summarized, checked,
                   bench_vars, store_vars>>

\* mutant: a generation call that raised is retried like a repetitive reply
GenerateFailsRetried ==
    /\ pc = "generate"
    /\ pc' = IF RetryLoopContinues(attempt + 1, config.max_retries)
             THEN "generate" ELSE "crashed"
    /\ attempt' = attempt + 1
    /\ generations' = generations + 1
    /\ ending' = IF pc' = "crashed" THEN "aborted" ELSE ending
    /\ UNCHANGED <<config, now, log, stage, session_entries, session_text,
                   recent_replies, avoid_text, behavior, user_input, reply,
                   cands, appended, dialogs, turn, prev_log, summarized,
                   checked, bench_vars, store_vars>>

\* generate_reply raises: nothing in run_cycle or main catches it
GenerateFails ==
    /\ pc = "generate"
    /\ pc' = "crashed"
    /\ attempt' = attempt + 1
    /\ generations' = generations + 1
    /\ ending' = "aborted"
    /\ UNCHANGED <<config, now, log, stage, session_entries, session_text,
                   recent_replies, avoid_text, behavior, user_input, reply,
                   cands, appended, dialogs, turn, prev_log, summarized,
                   checked, bench_vars, store_vars>>

\* mutant: the cat row is logged but the session keeps no entry for it
AttachPersistNoEntry ==
    /\ pc = "persist"
    /\ \E action \in pick_action(config.actions, Fallback), t \in Later(now) :
        LET final_reply == attach_action(ensure_user_reference(reply, user_input), action)
        IN  /\ log' = append_log(log, t, "cat", final_reply)
            /\ now' = t
    /\ appended' = Append(appended, "cat")
    /\ session_entries' = session_entries
    /\ pc' = IF stage = "first" THEN "notify" ELSE "dialog"
    /\ UNCHANGED <<config, stage, session_text, recent_replies, avoid_text,
                   behavior, user_input, reply, attempt, cands, dialogs,
                   generations, turn, ending, prev_log, summarized, checked,
                   bench_vars, store_vars>>

\* lines 263-266 and 317-321
AttachPersist ==
    /\ pc = "persist"
    /\ \E action \in pick_action(config.actions, Fallback), t \in Later(now) :
        LET final_reply == attach_action(ensure_user_reference(reply, user_input), action)
        IN  /\ log' = append_log(log, t, "cat", final_reply)
            /\ now' = t
    /\ appended' = Append(appended, "cat")
    /\ session_entries' = Append(session_entries, [role |-> "cat", text |-> reply])
    /\ pc' = IF stage = "first" THEN "notify" ELSE "dialog"
    /\ UNCHANGED <<config, stage, session_text, recent_replies, avoid_text,
                   behavior, user_input, reply, attempt, cands, dialogs,
                   generations, turn, ending, prev_log, summarized, checked,
                   bench_vars, store_vars>>

\* lines 268-283: the notification, the first dialog and the two early
\* returns. The user sends text only while the three rows of one more turn
\* fit in a log of MaxLog rows.
NotifyThenDialog ==
    /\ pc = "notify"
    /\ \E n \in Notifications, pressed \in BOOLEAN, text \in Inputs, t \in Later(now) :
        LET r == notify_then_dialog(n, pressed, text)
        IN  /\ dialogs' = dialogs + r.dialog_calls
            /\ IF ~r.clicked
               THEN /\ log' = append_log(log, t, "system", NoteNotClicked)
                    /\ now' = t
                    /\ appended' = Append(appended, "system")
                    /\ ending' = "not_clicked"
                    /\ pc' = "idle"
                    /\ UNCHANGED user_input
               ELSE IF ~r.sent
               THEN /\ log' = append_log(log, t, "system", NoteClosed)
                    /\ now' = t
                    /\ appended' = Append(appended, "system")
                    /\ ending' = "declined_first"
                    /\ pc' = "idle"
                    /\ UNCHANGED user_input
               ELSE /\ Len(log) + 3 <= MaxLog \/ strip(r.text) = <<>>
                    /\ user_input' = r.text
                    /\ pc' = "talk"
                    /\ UNCHANGED <<log, now, appended, ending>>
    /\ UNCHANGED <<config, stage, session_entries, session_text, recent_replies,
                   avoid_text, behavior, reply, attempt, cands, generations,
                   turn, prev_log, summarized, checked, bench_vars, store_vars>>

\* mutant: the test is for a missing input, which a dialog never returns
IsEmptyInputNever(stripped) == FALSE

\* mutant: every input ends the conversation
IsEmptyInputAlways(stripped) == TRUE

\* the empty-input test of line 287, on the stripped input
IsEmptyInput(stripped) == stripped = <<>>

\* lines 285-301: the top of the keep_talking loop
Talk ==
    /\ pc = "talk"
    /\ LET stripped == strip(user_input)
       IN  /\ user_input' = stripped
           /\ \E t \in Later(now) :
               IF IsEmptyInput(stripped)
               THEN /\ log' = append_log(log, t, "system", NoteEmpty)
                    /\ now' = t
                    /\ appended' = Append(appended, "system")
                    /\ ending' = "empty"
                    /\ pc' = "compact"
                    /\ UNCHANGED <<stage, session_entries, session_text,
                                   recent_replies, avoid_text, behavior, reply,
                                   attempt, cands, turn>>
               ELSE /\ log' = append_log(log, t, "user", stripped)
                    /\ now' = t
                    /\ appended' = Append(appended, "user")
                    /\ \E b \in pick_action(config.actions, Fallback) : behavior' = b
                    /\ session_entries' =
                           Append(session_entries, [role |-> "user", text |-> stripped])
                    /\ session_text' =
                           build_session_context(session_entries',
                                                 config.history_max_turns,
                                                 config.history_max_chars)
                    /\ recent_replies' =
                           get_recent_cat_replies(log', config.history_max_turns * 2)
                    /\ avoid_text' = AvoidText(recent_replies')
                    /\ reply' = <<>>
                    /\ attempt' = 0
                    /\ cands' = <<>>
                    /\ stage' = "next"
                    /\ turn' = turn + 1
                    /\ pc' = IF RetryLoopContinues(0, config.max_retries)
                             THEN "generate" ELSE "persist"
                    /\ UNCHANGED ending
    /\ UNCHANGED <<config, dialogs, generations, prev_log, summarized, checked,
                   bench_vars, store_vars>>

\* lines 323-331: the dialog of a continuation turn. The user sends text only
\* while the three rows of one more turn fit in a log of MaxLog rows.
DisplayDialog ==
    /\ pc = "dialog"
    /\ dialogs' = dialogs + 1
    /\ \E pressed \in BOOLEAN, text \in Inputs, t \in Later(now) :
        IF ~pressed
        THEN /\ log' = append_log(log, t, "system", NoteClosed)
             /\ now' = t
             /\ appended' = Append(appended, "system")
             /\ ending' = "declined"
             /\ pc' = "compact"
             /\ UNCHANGED user_input
        ELSE /\ Len(log) + 3 <= MaxLog \/ strip(text) = <<>>
             /\ user_input' = text
             /\ pc' = "talk"
             /\ UNCHANGED <<log, now, appended, ending>>
    /\ UNCHANGED <<config, stage, session_entries, session_text, recent_replies,
                   avoid_text, behavior, reply, attempt, cands, generations,
                   turn, prev_log, summarized, checked, bench_vars, store_vars>>

\* lines 333-341 and 188-228: the compaction check that ends the loop
SummarizeLogsIfNeeded ==
    /\ pc = "compact"
    /\ prev_log' = log
    /\ checked' = checked + 1
    /\ IF ~NeedsCompaction(log, config.max_records)
       THEN /\ summarized' = 0
            /\ UNCHANGED <<log, now>>
       ELSE /\ summarized' = 1
            /\ \E summary \in Summaries, t \in Later(now) :
                /\ log' = CompactedRows(log, config.compress_batch,
                                        Row(t, "summary", summary))
                /\ now' = t
    /\ pc' = "idle"
    /\ UNCHANGED <<config, stage, session_entries, session_text, recent_replies,
                   avoid_text, behavior, user_input, reply, attempt, cands,
                   appended, dialogs, generations, turn, ending, bench_vars, store_vars>>

Next ==
    \/ StartCycle
    \/ GenerateReply
    \/ GenerateFails
    \/ AttachPersist
    \/ NotifyThenDialog
    \/ Talk
    \/ DisplayDialog
    \/ SummarizeLogsIfNeeded

Spec == Init /\ [][Next]_vars

\* The engine when every call of generate_reply and of the summarizer
\* returns: the process is single-threaded and runs on as long as the call
\* it waits for returns. Nothing is assumed about what the user does or when.
LiveConfigs ==
    {c \in TurnConfigs : c.actions = <<>> /\ c.history_max_turns = 1}

InitLive ==
    /\ config \in LiveConfigs
    /\ EngineIdle
    /\ BenchOff
    /\ StoreOff

NextLive ==
    \/ StartCycle
    \/ GenerateReply
    \/ AttachPersist
    \/ NotifyThenDialog
    \/ Talk
    \/ DisplayDialog
    \/ SummarizeLogsIfNeeded

\* lines 286-289: the loop body on an input that is blank
BlankTalk == strip(user_input) = <<>> /\ Talk

SpecLive ==
    /\ InitLive
    /\ [][NextLive]_vars
    /\ WF_vars(GenerateReply)
    /\ WF_vars(AttachPersist)
    /\ WF_vars(BlankTalk)
    /\ WF_vars(SummarizeLogsIfNeeded)

-----------------------------------------------------------------------------
(* Text bench: the pure functions applied to texts drawn from bounded sets. *)

Alphabet == {"a", "A", "(", ")", ".", " ", "\t"}

Texts(n) == UNION {[1..k -> Alphabet] : k \in 0..n}

\* texts of session entries and of log rows: stripped, as the engine stores them
EntryTexts == {<<"g">>, <<"g", "a">>, <<"g", "\n", "a">>}

\* session entries as run_cycle builds them: cat first, then user and cat in turn
SessionSeqs ==
    UNION {{e \in [1..k -> [role : {"cat", "user"}, text : EntryTexts]] :
               \A i \in 1..k : e[i].role = (IF i % 2 = 1 THEN "cat" ELSE "user")} :
           k \in 0..MaxEntries}

\* log rows: a cat row or a summary row first
RowSeqs ==
    UNION {{r \in [1..k -> [timestamp : {0},
                            direction : {"summary", "cat", "user", "system"},
                            content : {<<"g">>, <<"g", "\n", "a">>}]] :
               k > 0 => r[1].direction \in {"summary", "cat"}} :
           k \in 0..(MaxEntries - 1)}

\* action lists of config.json: entries may be empty or blank
BenchActionLists ==
    UNION {[1..k -> {<<>>, <<" ">>, <<"w">>, <<"z">>}] : k \in 0..2}

\* the configuration of the bench, with the given action list
BenchConfig(actions) ==
    [max_records |-> 2, compress_batch |-> 1, max_retries |-> 1,
     history_max_turns |-> 1, history_max_chars |-> MaxChars,
     actions |-> actions]

InitText ==
    /\ config \in {BenchConfig(a) : a \in BenchActionLists}
    /\ EngineIdle
    /\ StoreOff
    /\ t_fn = "none"
    /\ t_comb = <<>>
    /\ t_out = <<>>
    /\ t_flags = <<FALSE, FALSE>>
    /\ \/ /\ t_a \in Texts(MaxLen)
          /\ t_b = <<>>
          /\ t_entries = <<>>
          /\ t_rows = <<>>
          /\ t_turns = 0
          /\ t_chars = 0
       \/ /\ t_a \in Texts(MaxLenB)
          /\ t_b \in Texts(MaxLenB)
          /\ t_entries = <<>>
          /\ t_rows = <<>>
          /\ t_turns = 0
          /\ t_chars = 0
       \/ /\ t_a = <<>>
          /\ t_b = <<>>
          /\ t_entries \in SessionSeqs
          /\ t_rows = <<>>
          /\ t_turns \in {0, 1, 2}
          /\ t_chars \in 0..MaxChars
       \/ /\ t_a = <<>>
          /\ t_b = <<>>
          /\ t_entries = <<>>
          /\ t_rows \in RowSeqs
          /\ t_turns \in {0, 1, 2}
          /\ t_chars \in 0..MaxChars
    /\ config.actions # <<>> =>
           t_a = <<>> /\ t_b = <<>> /\ t_entries = <<>> /\ t_rows = <<>>

\* t_out = normalize_for_compare(t_a)
CallNormalize ==
    /\ t_fn = "none"
    /\ t_fn' = "normalize_for_compare"
    /\ t_out' = normalize_for_compare(t_a)
    /\ UNCHANGED <<engine_vars, store_vars, t_a, t_b, t_entries, t_rows, t_turns, t_chars,
                   t_comb, t_flags>>

\* the result of normalize_for_compare is normalized once more
CallNormalizeAgain ==
    /\ t_fn = "normalize_for_compare"
    /\ t_fn' = "normalize_for_compare again"
    /\ t_a' = t_out
    /\ t_out' = normalize_for_compare(t_out)
    /\ UNCHANGED <<engine_vars, store_vars, t_b, t_entries, t_rows, t_turns, t_chars,
                   t_comb, t_flags>>

\* t_flags = (is_repetitive(t_a, [t_b]), is_repetitive(t_b, [t_a]))
CallIsRepetitive ==
    /\ t_fn = "none"
    /\ t_fn' = "is_repetitive"
    /\ t_flags' = <<is_repetitive(t_a, <<t_b>>), is_repetitive(t_b, <<t_a>>)>>
    /\ UNCHANGED <<engine_vars, store_vars, t_a, t_b, t_entries, t_rows, t_turns, t_chars,
                   t_comb, t_out>>

\* t_out = attach_action(t_a, t_b)
CallAttachAction ==
    /\ t_fn = "none"
    /\ t_fn' = "attach_action"
    /\ t_out' = attach_action(t_a, t_b)
    /\ UNCHANGED <<engine_vars, store_vars, t_a, t_b, t_entries, t_rows, t_turns, t_chars,
                   t_comb, t_flags>>

\* the result of attach_action is given to strip_action
CallStripAction ==
    /\ t_fn = "attach_action"
    /\ t_fn' = "strip_action"
    /\ t_out' = strip_action(t_out)
    /\ UNCHANGED <<engine_vars, store_vars, t_a, t_b, t_entries, t_rows, t_turns, t_chars,
                   t_comb, t_flags>>

CallBuildSessionContext ==
    /\ t_fn = "none"
    /\ t_entries # <<>>
    /\ t_fn' = "build_session_context"
    /\ t_comb' = SessionCombined(t_entries, t_turns)
    /\ t_out' = build_session_context(t_entries, t_turns, t_chars)
    /\ UNCHANGED <<engine_vars, store_vars, t_a, t_b, t_entries, t_rows, t_turns, t_chars,
                   t_flags>>

CallBuildHistoryContext ==
    /\ t_fn = "none"
    /\ t_rows # <<>>
    /\ t_fn' = "build_history_context"
    /\ t_comb' = HistoryCombined(t_rows, t_turns)
    /\ t_out' = build_history_context(t_rows, t_turns, t_chars)
    /\ UNCHANGED <<engine_vars, store_vars, t_a, t_b, t_entries, t_rows, t_turns, t_chars,
                   t_flags>>

\* t_out = pick_action(config.actions, "扶正牛仔帽"), any value it may return
CallPickAction ==
    /\ t_fn = "none"
    /\ t_a = <<>>
    /\ t_b = <<>>
    /\ t_entries = <<>>
    /\ t_rows = <<>>
    /\ t_fn' = "pick_action"
    /\ t_out' \in pick_action(config.actions, Fallback)
    /\ UNCHANGED <<engine_vars, store_vars, t_a, t_b, t_entries, t_rows, t_turns, t_chars,
                   t_comb, t_flags>>

NextText ==
    \/ CallPickAction
    \/ CallNormalize
    \/ CallNormalizeAgain
    \/ CallIsRepetitive
    \/ CallAttachAction
    \/ CallStripAction
    \/ CallBuildSessionContext
    \/ CallBuildHistoryContext

SpecText == InitText /\ [][NextText]_vars

-----------------------------------------------------------------------------
(* Log store on disk: append_log and write_logs step by step, with the     *)
(* process killed between steps. Lines written to the open file reach the   *)
(* disk when the file is closed, or earlier, when the write buffer fills;   *)
(* a killed process loses the lines still in the buffer.                    *)

\* the header row ["timestamp", "direction", "content"]; its fields are not read
HeaderLine == Row(0, "direction", <<"content">>)

\* read_logs: rows[1:] of the lines of the file
read_logs(lines) == PySliceFrom(lines, 1)

\* the engine variables the log store leaves alone
store_rest == <<config, log, stage, session_entries, session_text,
                recent_replies, avoid_text, behavior, user_input, reply,
                attempt, cands, appended, dialogs, generations, turn, ending,
                prev_log, summarized, checked>>

\* main, line 347: ensure_log_file has written the header
InitStore ==
    /\ config \in CompactionConfigs
    /\ EngineIdle
    /\ BenchOff
    /\ file = <<HeaderLine>>
    /\ buffer = <<>>
    /\ op = [kind |-> "none", pre |-> <<>>, post |-> <<>>]

\* append_log, line 88: the file is opened with "a", which changes nothing.
\* The row of line 90 is fixed here, its timestamp included. Rows are
\* appended while the file holds fewer than MaxEntries of them.
AppendLogOpen ==
    /\ pc = "idle"
    /\ Len(file) <= MaxEntries
    /\ \E direction \in {"cat", "user", "system"}, t \in Later(now) :
        /\ op' = [kind |-> "append", pre |-> read_logs(file),
                  post |-> append_log(read_logs(file), t, direction, <<"g">>)]
        /\ now' = t
    /\ pc' = "append_open"
    /\ UNCHANGED <<store_rest, bench_vars, file, buffer>>

\* append_log, line 90: writer.writerow
AppendLogWriteRow ==
    /\ pc = "append_open"
    /\ buffer' = <<op.post[Len(op.post)]>>
    /\ pc' = "closing"
    /\ UNCHANGED <<store_rest, bench_vars, now, file, op>>

\* summarize_logs_if_needed, lines 197-228, and write_logs, line 101: the
\* file is opened with "w", which empties it. The check runs while the file
\* holds at most MaxEntries rows.
WriteLogsOpen ==
    /\ pc = "idle"
    /\ Len(file) <= MaxEntries + 1
    /\ NeedsCompaction(read_logs(file), config.max_records)
    /\ \E summary \in Summaries, t \in Later(now) :
        /\ op' = [kind |-> "write", pre |-> read_logs(file),
                  post |-> CompactedRows(read_logs(file), config.compress_batch,
                                         Row(t, "summary", summary))]
        /\ now' = t
    /\ file' = <<>>
    /\ pc' = "write_open"
    /\ UNCHANGED <<store_rest, bench_vars, buffer>>

\* write_logs, line 103: the header row
WriteLogsHeader ==
    /\ pc = "write_open"
    /\ buffer' = <<HeaderLine>>
    /\ pc' = "write_header"
    /\ UNCHANGED <<store_rest, bench_vars, now, file, op>>

\* write_logs, line 104: writer.writerows
WriteLogsRows ==
    /\ pc = "write_header"
    /\ buffer' = buffer \o op.post
    /\ pc' = "closing"
    /\ UNCHANGED <<store_rest, bench_vars, now, file, op>>

\* the write buffer fills: its first k lines go to the disk
FlushSome ==
    /\ pc = "closing"
    /\ \E k \in 1..(Len(buffer) - 1) :
        /\ file' = file \o SubSeq(buffer, 1, k)
        /\ buffer' = SubSeq(buffer, k + 1, Len(buffer))
    /\ UNCHANGED <<store_rest, bench_vars, now, pc, op>>

\* the end of the with block, lines 88 and 101: the file is closed
CloseFile ==
    /\ pc = "closing"
    /\ file' = file \o buffer
    /\ buffer' = <<>>
    /\ pc' = "idle"
    /\ UNCHANGED <<store_rest, bench_vars, now, op>>

\* the process is killed inside the with block
CrashInStore ==
    /\ pc \in {"append_open", "write_open", "write_header", "closing"}
    /\ buffer' = <<>>
    /\ pc' = "killed"
    /\ UNCHANGED <<store_rest, bench_vars, now, file, op>>

\* main runs again: ensure_log_file finds the file and leaves it as it is
Restart ==
    /\ pc = "killed"
    /\ pc' = "idle"
    /\ UNCHANGED <<store_rest, bench_vars, now, file, buffer, op>>

NextStore ==
    \/ AppendLogOpen
    \/ AppendLogWriteRow
    \/ WriteLogsOpen
    \/ WriteLogsHeader
    \/ WriteLogsRows
    \/ FlushSome
    \/ CloseFile
    \/ CrashInStore
    \/ Restart

SpecStore == InitStore /\ [][NextStore]_vars

-----------------------------------------------------------------------------
(* Properties.                                                             *)

RECURSIVE Count(_, _)
Count(s, x) ==
    IF s = <<>> THEN 0
    ELSE (IF Head(s) = x THEN 1 ELSE 0) + Count(Tail(s), x)

Last(s) == s[Len(s)]

HasParens(s) == Contains(s, "(") \/ Contains(s, ")")

\* the turn's reply has been accepted and persisted
TurnAccepted == pc \in {"notify", "dialog", "talk", "compact", "idle"} /\ turn > 0

\* the compaction check of this cycle has run
CheckDone == pc = "idle" /\ checked = 1

\* C1: in every turn generate_reply is called at most max_retries times; the
\* retry loop goes on only past repetitive candidates and stops at the first
\* one that is not; the accepted reply is the last candidate produced, also
\* when all max_retries candidates were repetitive, in which case the cycle
\* does not fail; and the turn appends exactly one cat record, the accepted
\* reply with its action.
C1_BoundedRetry ==
    /\ attempt <= config.max_retries
    /\ Len(cands) <= attempt
    /\ \A i \in 1..(Len(cands) - 1) : is_repetitive(cands[i], recent_replies)
    /\ pc = "generate" =>
           \A i \in 1..Len(cands) : is_repetitive(cands[i], recent_replies)
    /\ (config.max_retries > 0 /\ Len(cands) = config.max_retries) =>
           pc \notin {"generate", "crashed"}
    /\ Count(appended, "cat") =
           (IF pc \in {"generate", "persist", "crashed"} THEN turn - 1 ELSE turn)
    /\ TurnAccepted =>
           /\ cands # <<>> => reply = Last(cands)
           /\ cands = <<>> => reply = <<>> /\ config.max_retries <= 0
           /\ is_repetitive(reply, recent_replies) =>
                  Len(cands) = config.max_retries
           /\ Last(session_entries) = [role |-> "cat", text |-> reply]
    /\ pc \in {"notify", "dialog"} =>
           /\ Last(log).direction = "cat"
           /\ Last(log).content \in
                  {attach_action(reply, a) : a \in pick_action(config.actions, Fallback)}

\* C1 witness: a continuation turn in which all of three candidates were
\* repetitive and the third one was accepted
C1_Witness ==
    /\ pc = "dialog"
    /\ config.max_retries = 3
    /\ Len(cands) = 3
    /\ \A i \in 1..3 : is_repetitive(cands[i], recent_replies)
    /\ reply = cands[3]
    /\ Last(log).direction = "cat"

\* C2 as stated: after a compaction check on more than max_records rows the
\* log is one summary row followed by the rows after the oldest
\* compress_batch ones, so its length is 1 + (original_len - compress_batch)
C2_AsStated ==
    (CheckDone /\ Len(prev_log) > config.max_records) =>
        /\ Len(log) = 1 + (Len(prev_log) - config.compress_batch)
        /\ log[1].direction = "summary"
        /\ Tail(log) = SubSeq(prev_log, config.compress_batch + 1, Len(prev_log))

\* C2 amended: the same, when compress_batch is at most the number of rows;
\* when it is larger the log is the summary row alone
C2_Compaction ==
    (CheckDone /\ Len(prev_log) > config.max_records) =>
        /\ log[1].direction = "summary"
        /\ summarized = 1
        /\ IF config.compress_batch <= Len(prev_log)
           THEN /\ Len(log) = 1 + (Len(prev_log) - config.compress_batch)
                /\ Tail(log) = SubSeq(prev_log, config.compress_batch + 1,
                                      Len(prev_log))
           ELSE Len(log) = 1

\* C2 witness: a compaction that dropped some rows and kept some
C2_Witness ==
    /\ CheckDone
    /\ Len(prev_log) > config.max_records
    /\ config.compress_batch > 0
    /\ config.compress_batch < Len(prev_log)
    /\ Len(log) = 1 + (Len(prev_log) - config.compress_batch)

\* C3: a compaction check on max_records rows or fewer leaves the log as it
\* is and does not call the summarizer; the summarizer is called only on more
\* than max_records rows
C3_ThresholdNoOp ==
    CheckDone =>
        /\ Len(prev_log) <= config.max_records => log = prev_log /\ summarized = 0
        /\ summarized = 1 => Len(prev_log) > config.max_records

\* C3 witness: a check on exactly max_records rows
C3_Witness ==
    /\ CheckDone
    /\ Len(prev_log) = config.max_records
    /\ log = prev_log
    /\ summarized = 0

\* C4 as stated: a cycle that has ended on any terminal transition has run
\* the compaction check
C4_AsStated == (pc = "idle" /\ ending # "none") => checked = 1

\* C5 as stated: when normalized A is a substring of normalized B,
\* is_repetitive(A, [B]) and is_repetitive(B, [A]) are both true
C5_AsStated ==
    (/\ t_fn = "is_repetitive"
     /\ IsSubstring(normalize_for_compare(t_a), normalize_for_compare(t_b))) =>
        t_flags = <<TRUE, TRUE>>

\* C5 amended: the same, when normalized A is not empty
C5_Containment ==
    (/\ t_fn = "is_repetitive"
     /\ normalize_for_compare(t_a) # <<>>
     /\ IsSubstring(normalize_for_compare(t_a), normalize_for_compare(t_b))) =>
        t_flags = <<TRUE, TRUE>>

\* C5 witness: normalized A is a proper, non-empty part of normalized B
C5_Witness ==
    /\ t_fn = "is_repetitive"
    /\ normalize_for_compare(t_a) # <<>>
    /\ normalize_for_compare(t_a) # normalize_for_compare(t_b)
    /\ IsSubstring(normalize_for_compare(t_a), normalize_for_compare(t_b))
    /\ t_flags = <<TRUE, TRUE>>

\* C6 as stated: normalizing a normalized text changes nothing
C6_AsStated == t_fn = "normalize_for_compare again" => t_out = t_a

\* C7 as stated: for a reply without parentheses and any action,
\* strip_action(attach_action(reply, action)) is the reply
C7_AsStated == (t_fn = "strip_action" /\ ~HasParens(t_a)) => t_out = t_a

\* C7 amended: the same, for a reply that has no leading or trailing
\* whitespace and an action that holds no closing parenthesis
C7_RoundTrip ==
    (/\ t_fn = "strip_action"
     /\ ~HasParens(t_a)
     /\ strip(t_a) = t_a
     /\ ~Contains(t_b, ")")) =>
        t_out = t_a

\* C7 witness: a reply and a non-empty action of the amended claim
C7_Witness ==
    /\ t_fn = "strip_action"
    /\ t_a # <<>>
    /\ ~HasParens(t_a)
    /\ strip(t_a) = t_a
    /\ t_b # <<>>
    /\ ~Contains(t_b, ")")
    /\ t_out = t_a

\* out is the end of comb and starts where a line of comb starts
StartsAtLineStart(out, comb) ==
    LET p == Len(comb) - Len(out)
    IN  /\ p >= 0
        /\ SubSeq(comb, p + 1, Len(comb)) = out
        /\ p = 0 \/ comb[p] = "\n"

\* C8 as stated: when the combined text is longer than max_chars the context
\* returned starts where a line of the combined text starts
C8_AsStated ==
    (/\ t_fn \in {"build_session_context", "build_history_context"}
     /\ Len(t_comb) > t_chars) =>
        t_out = None \/ StartsAtLineStart(t_out, t_comb)

\* C9: the rows a cycle appends are one cat row, then user and cat rows in
\* pairs, then one system row, which is the last: after it the cycle is at
\* its compaction check or has returned, and generates and shows nothing. A
\* continuation turn starts only from a non-empty stripped input, which is
\* the user row appended last.
C9_CycleRows ==
    /\ \A i \in 1..Len(appended) :
           appended[i] = (IF i = Len(appended) /\ ending \notin {"none", "aborted"}
                          THEN "system"
                          ELSE IF i % 2 = 1 THEN "cat" ELSE "user")
    /\ (pc \in {"compact", "idle"} /\ turn > 0) =>
           /\ ending \in {"not_clicked", "declined_first", "declined", "empty"}
           /\ Len(appended) = 2 * turn
    /\ ending \in {"not_clicked", "declined_first", "declined", "empty"} =>
           /\ pc \in {"compact", "idle"}
           /\ Last(log).direction = "system" \/ summarized = 1
    /\ (pc \in {"generate", "persist"} /\ stage = "next") =>
           /\ Last(appended) = "user"
           /\ user_input # <<>>
           /\ strip(user_input) = user_input
           /\ Last(log) = Row(Last(log).timestamp, "user", user_input)
           /\ Last(session_entries) = [role |-> "user", text |-> user_input]

\* C9 witness: a cycle of two turns that ended with a declined dialog
C9_Witness ==
    /\ pc = "idle"
    /\ ending = "declined"
    /\ appended = <<"cat", "user", "cat", "system">>

\* C10: a cycle whose notification was not acknowledged has appended the cat
\* row and then one system row, the not-clicked note, has shown no dialog and
\* has returned
C10_NotClicked ==
    ending = "not_clicked" =>
        /\ pc = "idle"
        /\ dialogs = 0
        /\ appended = <<"cat", "system">>
        /\ Len(log) >= 2
        /\ Last(log).direction = "system"
        /\ Last(log).content = NoteNotClicked
        /\ log[Len(log) - 1].direction = "cat"

\* C10 witness: a cycle that ended on the unacknowledged notification
C10_Witness ==
    /\ ending = "not_clicked"
    /\ pc = "idle"
    /\ Last(log).content = NoteNotClicked

\* the entries of an action list
ActionEntries(actions) == {actions[i] : i \in 1..Len(actions)}

\* C11 as stated: pick_action returns the fallback when the action list is
\* empty or holds only empty strings, and otherwise one of the non-empty
\* entries of the list
C11_AsStated ==
    t_fn = "pick_action" =>
        IF ActionEntries(config.actions) \subseteq {<<>>}
        THEN t_out = Fallback
        ELSE t_out # <<>> /\ t_out \in ActionEntries(config.actions)

\* C12: the first cat row of a cycle is the accepted reply followed at once by
\* "(action)"; with an empty action list the action is the fallback, so the
\* row is the reply followed by "(扶正牛仔帽)"; the row is the bare reply only
\* when the action picked is empty
C12_FallbackAttached ==
    pc = "notify" =>
        /\ Last(log).direction = "cat"
        /\ Last(appended) = "cat" /\ Len(appended) = 1
        /\ \E a \in pick_action(config.actions, Fallback) :
               Last(log).content =
                   (IF a = <<>> THEN reply ELSE reply \o <<"(">> \o a \o <<")">>)
        /\ config.actions = <<>> =>
               Last(log).content = reply \o <<"(">> \o Fallback \o <<")">>
        /\ Last(log).content = reply =>
               <<>> \in pick_action(config.actions, Fallback)

\* C12 witness: a first cat row written under an empty action list
C12_Witness ==
    /\ pc = "notify"
    /\ config.actions = <<>>
    /\ reply \in Replies
    /\ Last(log).content = reply \o <<"(">> \o Fallback \o <<")">>

\* C13 as stated: whatever the cycles and compactions run from an empty log,
\* the log holds at most one summary row, and a summary row is the first row
C13_AsStated ==
    /\ Len(RowsOf(log, {"summary"})) <= 1
    /\ \A i \in 1..Len(log) : log[i].direction = "summary" => i = 1

\* C14 as stated: when the process is killed during append_log or write_logs
\* the rows of the file are those before the operation or those after it
C14_AsStated == pc = "killed" => read_logs(file) \in {op.pre, op.post}

\* C15 as stated: under a clock that never goes back, the timestamps of the
\* log rows never decrease along the log, the summary row at the head included
C15_AsStated ==
    \A i \in 1..Len(log), j \in 1..Len(log) :
        i < j => log[i].timestamp <= log[j].timestamp

\* C16: a generation call that raises is the last thing its cycle does: every
\* earlier call of the turn returned, the turn has appended no cat row and
\* shown no dialog, the cycle has run no compaction check, and run_cycle and
\* main are left by the exception, after which nothing changes any more
C16_FailureAborts ==
    /\ [](/\ pc # "crashed" => attempt = Len(cands) /\ ending # "aborted"
          /\ pc = "crashed" =>
                 /\ ending = "aborted"
                 /\ attempt = Len(cands) + 1
                 /\ \A i \in 1..Len(cands) : is_repetitive(cands[i], recent_replies)
                 /\ Count(appended, "cat") = turn - 1
                 /\ Len(appended) = 2 * (turn - 1)
                 /\ turn > 1 => Last(appended) = "user" /\ Last(log).direction = "user"
                 /\ dialogs = turn - 1
                 /\ Len(session_entries) = 2 * (turn - 1)
                 /\ checked = 0)
    /\ [][pc # "crashed"]_vars

\* C16 witness: on a continuation turn the second generation call raised,
\* after a first call that returned a repetitive reply
C16_Witness ==
    /\ pc = "crashed"
    /\ stage = "next"
    /\ Len(cands) = 1
    /\ generations >= 3

\* C17 as stated: each non-fatal condition of a cycle leaves a system row: a
\* candidate rejected as repetitive, a declined dialog, an empty input
C17_AsStated ==
    /\ (pc = "generate" /\ cands # <<>>) =>
           /\ is_repetitive(Last(cands), recent_replies)
           /\ appended # <<>> /\ Last(appended) = "system"
           /\ Last(log).direction = "system"
    /\ (ending \in {"declined_first", "declined", "empty"} /\ pc = "compact") =>
           /\ Last(appended) = "system"
           /\ Last(log).direction = "system"

\* a step that ends the cycle is the user's: the notification left alone, a
\* dialog closed, or an input that is empty once stripped
EndedByUser ==
    (ending = "none" /\ ending' # "none") =>
        \/ pc = "notify" /\ ending' \in {"not_clicked", "declined_first"}
        \/ pc = "dialog" /\ ending' = "declined"
        \/ pc = "talk" /\ strip(user_input) = <<>> /\ ending' = "empty"

\* an input that is not empty once stripped starts one more turn, whatever
\* the number of turns so far
TalkContinues ==
    (pc = "talk" /\ strip(user_input) # <<>>) =>
        /\ pc' \in {"generate", "persist"}
        /\ turn' = turn + 1
        /\ ending' = "none"

\* C18: when every call returns, a turn always gets to its notification or
\* dialog, and a cycle the user has ended (notification left alone, dialog
\* closed, blank input) returns; the cycle ends only by such a step of the
\* user, and a non-blank input always starts one more turn
C18_UserBoundsCycle ==
    /\ (pc \in {"generate", "persist"}) ~> (pc \in {"notify", "dialog"})
    /\ (pc = "talk" /\ strip(user_input) = <<>>) ~> (pc = "idle")
    /\ (ending # "none") ~> (pc = "idle")
    /\ [][EndedByUser /\ TalkContinues]_vars

\* C18 witness: a cycle that went through three turns before the user sent
\* a blank input, and then returned
C18_Witness ==
    /\ pc = "idle"
    /\ turn = 3
    /\ ending = "empty"
    /\ generations >= 3

IsDialogRow(direction) == direction \in {"cat", "user"}

\* the entry is the session's record of the log row: same role, and the text
\* the row was written from
EntryOfRow(entry, row) ==
    /\ entry.role = row.direction
    /\ IF entry.role = "user"
       THEN row.content = entry.text
       ELSE row.content \in {attach_action(entry.text, a) :
                                a \in pick_action(config.actions, Fallback)}

LastN(s, n) == SubSeq(s, Len(s) - Min(n, Len(s)) + 1, Len(s))

\* C20 as stated: for max_turns >= 0 and max_chars >= 0 the context is built
\* from the last 2 * max_turns entries (dialog rows) at most, and is at most
\* max_chars characters long unless it is the sentinel
C20_AsStated ==
    /\ t_fn = "build_session_context" =>
           /\ t_comb = (IF t_turns = 0 THEN <<>>
                        ELSE SessionCombined(LastN(t_entries, 2 * t_turns), t_turns))
           /\ t_out = None \/ Len(t_out) <= t_chars
    /\ t_fn = "build_history_context" =>
           /\ t_comb =
                  HistoryCombined(
                      RowsOf(t_rows, {"summary"}) \o
                          LastN(RowsOf(t_rows, {"user", "cat"}), 2 * t_turns),
                      Max(t_turns, 1))
           /\ t_out = None \/ Len(t_out) <= t_chars

\* the action-stripped contents of the last n cat rows
LastCatReplies(rows, n) ==
    LET cat == LastN(RowsOf(rows, {"cat"}), n)
    IN  [i \in 1..Len(cat) |-> strip_action(cat[i].content)]

\* C21 as stated: while a turn generates, the recent replies are the
\* action-stripped contents of the last 2 * history_max_turns cat rows of the
\* log as the turn found it, so at most that many, and the avoid text is the
\* last two of them joined, or the sentinel when there is none
C21_AsStated ==
    pc \in {"generate", "persist"} =>
        /\ Len(recent_replies) <= 2 * config.history_max_turns
        /\ recent_replies = LastCatReplies(log, 2 * config.history_max_turns)
        /\ avoid_text = (IF recent_replies = <<>> THEN None
                         ELSE Join(LastN(recent_replies, 2), <<"\n">>))

\* the step leaves every row of the log in place and adds one cat, user or
\* system row after them
AppendsOneRow ==
    /\ Len(log') = Len(log) + 1
    /\ SubSeq(log', 1, Len(log)) = log
    /\ Last(log').direction \in {"cat", "user", "system"}

\* C22: a step that changes the log outside the compaction check appends one
\* row and leaves the rows before it as they were; every row the cycle
\* appends is added this way; rows leave the log only at the compaction
\* check, on more than max_records rows, all the oldest compress_batch at once
C22_AppendOnly ==
    [][/\ (log' # log /\ pc # "compact") => AppendsOneRow
       /\ Len(appended') = Len(appended) + 1 =>
              AppendsOneRow /\ Last(log').direction = Last(appended')
       /\ (log' # log /\ pc = "compact") =>
              /\ Len(log) > config.max_records
              /\ log'[1].direction = "summary"
              /\ Tail(log') = PySliceFrom(log, config.compress_batch)]_vars

\* C22 witness: the second cycle has appended three rows after the two rows
\* of the first, which are still in place
C22_Witness ==
    /\ appended = <<"cat", "user", "cat">>
    /\ Len(log) = 5
    /\ log[1].direction = "cat"
    /\ log[2].direction = "system"
    /\ log[3].direction = "cat"

\* the session entries that the rows the cycle has appended stand for
CycleEntries ==
    LET rows == LastN(log, Len(appended))
    IN  [i \in 1..Len(rows) |->
            [role |-> rows[i].direction, text |-> strip_action(rows[i].content)]]

\* C23: while a turn generates, the context given to generate_reply is built
\* from the session entries alone, which stand for the cat and user rows this
\* cycle has appended and for no row that was in the log before; on the first
\* turn there is none and the context is the sentinel, whatever the log holds
C23_SessionOnly ==
    pc \in {"generate", "persist"} =>
        /\ stage = "first" =>
               session_entries = <<>> /\ appended = <<>> /\ session_text = None
        /\ session_entries = CycleEntries
        /\ session_text = build_session_context(CycleEntries,
                                                config.history_max_turns,
                                                config.history_max_chars)

\* C23 witness: a continuation turn generates from a context that is not the
\* sentinel while the log starts with a summary row of an earlier cycle
C23_Witness ==
    /\ pc = "generate"
    /\ stage = "next"
    /\ Len(log) > Len(appended)
    /\ log[1].direction = "summary"
    /\ session_text # None
    /\ Len(session_entries) = 2

====
